---- MODULE Spec2Model ----
\* The assignment / review scheduler of linalgo (linalgo/scheduler.py) and the
\* ledger operations of the hub client it is used with (linalgo/hub/client.py).
EXTENDS Integers, Sequences, FiniteSets, TLC

\* annotators, documents, annotations: the task (task.annotators ids,
\* task.documents ids, task.annotations); schedule: the ledger table the
\* scheduler reads; result: the outcome of the scheduler call made last.
\* History of the calls, kept beside the program's state: rng (the generator
\* state the last call drew from), prev (the call before it and its generator
\* state), pending (documents handed out and not yet recorded in the ledger),
\* handed (every document handed out so far, with the kind of work).
VARIABLES annotators, documents, annotations, schedule, result, rng, prev, pending, handed

inputVars == <<annotators, documents, annotations, schedule>>
histVars == <<rng, prev, pending, handed>>
vars == <<annotators, documents, annotations, schedule, result, rng, prev, pending, handed>>

\* ---------------------------------------------------------------- bounds
MaxFlow == 3
MaxN == 3
NumSeeds == 2

\* ---------------------------------------------------------------- universe
AnnotatorSeq == <<"A1", "A2">>
DocSeq == <<"D1", "D2", "D3">>
KnownIds == {AnnotatorSeq[i] : i \in DOMAIN AnnotatorSeq}
AnnotatorIds == KnownIds \cup {"A3"}
DocIds == {DocSeq[i] : i \in DOMAIN DocSeq}
None == "None"
Seeds == 0 .. (NumSeeds - 1)
Sizes == 0 .. MaxN
\* n=None (random_review called without n)
Omitted == 0 - 1

\* hub/client.py: AssignmentType, AssignmentStatus
REVIEW == "R"
LABEL == "A"
ASSIGNED == "A"
COMPLETED == "C"

\* ---------------------------------------------------------------- helpers
Range(s) == {s[i] : i \in DOMAIN s}

\* list(<set>): a list holding each element once, in the set's iteration order,
\* which Python does not fix.
ListsOf(S) == {f \in [1 .. Cardinality(S) -> S] : Range(f) = S}

Remove(s, k) == [i \in 1 .. (Len(s) - 1) |-> IF i < k THEN s[i] ELSE s[i + 1]]

\* numpy's permutation(k) as a function of the generator state: the seed is
\* read as a Fisher-Yates draw sequence.
RECURSIVE Shuffle(_, _)
Shuffle(items, seed) ==
    IF items = <<>> THEN <<>>
    ELSE LET k == (seed % Len(items)) + 1
         IN  <<items[k]>> \o Shuffle(Remove(items, k), seed \div Len(items))

permutation(k, seed) == Shuffle([i \in 1 .. k |-> i], seed)

\* mutant: replace=True, every draw independent of the others
choice_Replace(a, n, seed) ==
    [i \in 1 .. n |-> a[((seed * i) % Len(a)) + 1]]

\* mutant: the first n of the list, no draw (pool[:n])
choice_First(a, n, seed) == [i \in 1 .. n |-> a[i]]

\* np.random.choice(a, size=n, replace=False): a[permutation(len(a))[:n]]
choice(a, n, seed) ==
    LET idx == permutation(Len(a), seed)
    IN  [i \in 1 .. n |-> a[idx[i]]]

\* schedule[col] == v : a boolean mask over the rows
Mask(sch, col, v) == [i \in DOMAIN sch |-> sch[i][col] = v]
MaskAnd(m1, m2) == [i \in DOMAIN m1 |-> m1[i] /\ m2[i]]
MaskOr(m1, m2) == [i \in DOMAIN m1 |-> m1[i] \/ m2[i]]
\* set(schedule.loc[idx, 'document'])
LocDocs(sch, idx) == {sch[i].document : i \in {j \in DOMAIN sch : idx[j]}}

\* ---------------------------------------------------------------- results
NoResult ==
    [op |-> "none", a |-> None, b |-> None, n |-> Omitted, kind |-> "none",
     set |-> {}, list |-> <<>>, exc |-> <<>>, printed |-> <<>>, scanned |-> FALSE]

Raised(op, a, b, n, kind, exc, printed, scanned) ==
    [op |-> op, a |-> a, b |-> b, n |-> n, kind |-> kind,
     set |-> {}, list |-> <<>>, exc |-> exc, printed |-> printed, scanned |-> scanned]

ReturnedSet(op, a, b, n, s) ==
    [op |-> op, a |-> a, b |-> b, n |-> n, kind |-> "set",
     set |-> s, list |-> <<>>, exc |-> <<>>, printed |-> <<>>, scanned |-> TRUE]

ReturnedList(op, a, b, n, l) ==
    [op |-> op, a |-> a, b |-> b, n |-> n, kind |-> "list",
     set |-> {}, list |-> l, exc |-> <<>>, printed |-> <<>>, scanned |-> TRUE]

\* ---------------------------------------------------------------- scheduler
\* mutant: the reviewer's pending (ASSIGNED) documents are not counted
reviewer_docs_SeenOnly(sch, reviewer_id) ==
    LET reviewer_idx == Mask(sch, "annotator", reviewer_id)
        seen_idx == Mask(sch, "status", COMPLETED)
    IN  LocDocs(sch, MaskAnd(reviewer_idx, seen_idx))

\* mutant: only the reviewer's review rows are counted
reviewer_docs_ReviewOnly(sch, reviewer_id) ==
    LET reviewer_idx == MaskAnd(Mask(sch, "annotator", reviewer_id),
                                Mask(sch, "type", REVIEW))
        seen_idx == Mask(sch, "status", COMPLETED)
        pending_idx == Mask(sch, "status", ASSIGNED)
    IN  LocDocs(sch, MaskAnd(reviewer_idx, MaskOr(seen_idx, pending_idx)))

\* Scheduler.random_review, lines 40-48
reviewer_docs(sch, reviewer_id) ==
    LET reviewer_idx == Mask(sch, "annotator", reviewer_id)
        seen_idx == Mask(sch, "status", COMPLETED)
        pending_idx == Mask(sch, "status", ASSIGNED)
    IN  LocDocs(sch, MaskAnd(reviewer_idx, MaskOr(seen_idx, pending_idx)))

reviewee_docs(sch, reviewee_id) ==
    LET reviewee_idx == Mask(sch, "annotator", reviewee_id)
        seen_idx == Mask(sch, "status", COMPLETED)
    IN  LocDocs(sch, MaskAnd(reviewee_idx, seen_idx))

review_pool(sch, reviewer_id, reviewee_id) ==
    reviewee_docs(sch, reviewee_id) \ reviewer_docs(sch, reviewer_id)

\* mutant: the size check comes before the identity check
random_review_result_SizeFirst(ann, sch, reviewer_id, reviewee_id, n, pool, seed) ==
    IF n # Omitted /\ n > Len(pool)
    THEN Raised("review", reviewer_id, reviewee_id, n, "NotEnoughReviews",
                <<>>, pool, TRUE)
    ELSE IF reviewer_id \notin ann \/ reviewee_id \notin ann
         THEN Raised("review", reviewer_id, reviewee_id, n, "AnnotatorNotFound",
                     <<>>, <<>>, TRUE)
         ELSE IF n # Omitted
              THEN ReturnedSet("review", reviewer_id, reviewee_id, n,
                               Range(choice(pool, n, seed)))
              ELSE ReturnedList("review", reviewer_id, reviewee_id, n, pool)

\* mutant: the shortage is raised as AnnotatorNotFound
random_review_result_WrongKind(ann, sch, reviewer_id, reviewee_id, n, pool, seed) ==
    IF reviewer_id \notin ann \/ reviewee_id \notin ann
    THEN Raised("review", reviewer_id, reviewee_id, n, "AnnotatorNotFound",
                <<>>, <<>>, FALSE)
    ELSE IF n # Omitted
         THEN IF n > Len(pool)
              THEN Raised("review", reviewer_id, reviewee_id, n, "AnnotatorNotFound",
                          <<>>, pool, TRUE)
              ELSE ReturnedSet("review", reviewer_id, reviewee_id, n,
                               Range(choice(pool, n, seed)))
         ELSE ReturnedList("review", reviewer_id, reviewee_id, n, pool)

\* mutant: n defaults to 1 instead of None
random_review_result_DefaultOne(ann, sch, reviewer_id, reviewee_id, n, pool, seed) ==
    LET m == IF n = Omitted THEN 1 ELSE n
    IN  IF reviewer_id \notin ann \/ reviewee_id \notin ann
        THEN Raised("review", reviewer_id, reviewee_id, n, "AnnotatorNotFound",
                    <<>>, <<>>, FALSE)
        ELSE IF m > Len(pool)
             THEN Raised("review", reviewer_id, reviewee_id, n, "NotEnoughReviews",
                         <<>>, pool, TRUE)
             ELSE ReturnedSet("review", reviewer_id, reviewee_id, n,
                              Range(choice(pool, m, seed)))

\* Scheduler.random_review as a function of its inputs, the iteration order of
\* the pool set (pool, a list of review_pool) and the generator state.
random_review_result(ann, sch, reviewer_id, reviewee_id, n, pool, seed) ==
    IF reviewer_id \notin ann \/ reviewee_id \notin ann
    THEN Raised("review", reviewer_id, reviewee_id, n, "AnnotatorNotFound",
                <<>>, <<>>, FALSE)
    ELSE IF n # Omitted
         THEN IF n > Len(pool)
              THEN Raised("review", reviewer_id, reviewee_id, n, "NotEnoughReviews",
                          <<>>, pool, TRUE)
              ELSE ReturnedSet("review", reviewer_id, reviewee_id, n,
                               Range(choice(pool, n, seed)))
         ELSE ReturnedList("review", reviewer_id, reviewee_id, n, pool)

\* Scheduler.random_assign, lines 78-91
all_seen_docs(anns) == {anns[i].document : i \in DOMAIN anns}
all_new_docs(docs, anns) == docs \ all_seen_docs(anns)
\* mutant: the assignee's pending (ASSIGNED) documents are not counted
assignee_docs_SeenOnly(sch, assignee_id) ==
    LET assignee_idx == Mask(sch, "annotator", assignee_id)
        seen_idx == Mask(sch, "status", COMPLETED)
    IN  LocDocs(sch, MaskAnd(assignee_idx, seen_idx))

assignee_docs(sch, assignee_id) ==
    LET assignee_idx == Mask(sch, "annotator", assignee_id)
        seen_idx == Mask(sch, "status", COMPLETED)
        pending_idx == Mask(sch, "status", ASSIGNED)
    IN  LocDocs(sch, MaskAnd(assignee_idx, MaskOr(seen_idx, pending_idx)))

\* mutant: documents that already have an annotation stay in the pool
assign_pool_AllDocs(docs, anns, sch, assignee_id) ==
    docs \ assignee_docs(sch, assignee_id)

assign_pool(docs, anns, sch, assignee_id) ==
    all_new_docs(docs, anns) \ assignee_docs(sch, assignee_id)

random_assign_result(ann, sch, assignee_id, n, pool, seed) ==
    IF assignee_id \notin ann
    THEN Raised("assign", assignee_id, None, n, "AnnotatorNotFound",
                <<assignee_id>>, <<>>, FALSE)
    ELSE IF n > Len(pool)
         THEN Raised("assign", assignee_id, None, n, "NotEnoughReviews",
                     <<>>, pool, TRUE)
         ELSE ReturnedSet("assign", assignee_id, None, n,
                          Range(choice(pool, n, seed)))

\* ---------------------------------------------------------------- actions
\* Scheduler(task, schedule): a scheduler over the current task and ledger.
\* Each instance serves one call, whose outcome is result.
Scheduler_init ==
    /\ result.op # "none"
    /\ result' = NoResult
    /\ UNCHANGED inputVars

random_review(reviewer_id, reviewee_id, n, seed) ==
    /\ result.op = "none"
    /\ \E pool \in ListsOf(review_pool(schedule, reviewer_id, reviewee_id)) :
           result' = random_review_result(annotators, schedule, reviewer_id,
                                          reviewee_id, n, pool, seed)
    /\ UNCHANGED inputVars

\* mutant: the rows of the assignee are dropped from the table in place
random_assign_Dropping(assignee_id, n, seed) ==
    /\ result.op = "none"
    /\ \E pool \in ListsOf(assign_pool(documents, annotations, schedule, assignee_id)) :
           result' = random_assign_result(annotators, schedule, assignee_id, n,
                                          pool, seed)
    /\ schedule' = SelectSeq(schedule, LAMBDA r : r.annotator # assignee_id)
    /\ UNCHANGED <<annotators, documents, annotations>>

random_assign(assignee_id, n, seed) ==
    /\ result.op = "none"
    /\ \E pool \in ListsOf(assign_pool(documents, annotations, schedule, assignee_id)) :
           result' = random_assign_result(annotators, schedule, assignee_id, n,
                                          pool, seed)
    /\ UNCHANGED inputVars

\* LinalgoClient.assign: one ASSIGNED record joins the ledger
assign(document, annotator, reviewee, assignment_type) ==
    /\ schedule' = Append(schedule,
                          [status |-> ASSIGNED, type |-> assignment_type,
                           document |-> document, annotator |-> annotator,
                           reviewee |-> reviewee])
    /\ UNCHANGED <<annotators, documents, annotations, result>>

\* The annotator submits the work of record i: the record moves ASSIGNED ->
\* COMPLETED, and labeling work leaves an annotation of the document
\* (LinalgoClient.create_annotations).
Submit(i) ==
    /\ i \in DOMAIN schedule
    /\ schedule[i].status = ASSIGNED
    /\ schedule' = [schedule EXCEPT ![i].status = COMPLETED]
    /\ annotations' =
           IF schedule[i].type = LABEL
           THEN Append(annotations, [document |-> schedule[i].document,
                                     annotator |-> schedule[i].annotator])
           ELSE annotations
    /\ UNCHANGED <<annotators, documents, result>>

NoPrev == [res |-> NoResult, seed |-> 0]

\* ---------------------------------------------------------------- snapshots
\* LinalgoClient.get_schedule: the rows of the task's document-status table.
\* The tables drawn here hold at most one row for each annotator and document,
\* any status, labeling rows or review rows.
PairSeq == [k \in 1 .. (Len(AnnotatorSeq) * Len(DocSeq)) |->
               <<AnnotatorSeq[((k - 1) \div Len(DocSeq)) + 1],
                 DocSeq[((k - 1) % Len(DocSeq)) + 1]>>]

Other(a) == CHOOSE b \in KnownIds : b # a

Rows(m, t) ==
    LET row(k) == [status |-> m[k], type |-> t,
                   document |-> PairSeq[k][2], annotator |-> PairSeq[k][1],
                   reviewee |-> IF t = REVIEW THEN Other(PairSeq[k][1]) ELSE None]
    IN  SelectSeq([k \in DOMAIN PairSeq |-> row(k)], LAMBDA r : r.status # None)

Ledgers ==
    {Rows(m, t) : m \in [DOMAIN PairSeq -> {None, ASSIGNED, COMPLETED}],
                  t \in {LABEL, REVIEW}}

\* LinalgoClient.get_task_annotations: the annotations submitted for the task
AnnotationLists ==
    {SelectSeq([k \in DOMAIN DocSeq |-> [document |-> DocSeq[k], annotator |-> by]],
               LAMBDA x : x.document \in D) : D \in SUBSET DocIds, by \in KnownIds}

\* ---------------------------------------------------------------- specification
\* The scheduler as a function of the task and the ledger it is given: every
\* call on every snapshot.
Init ==
    /\ annotators = KnownIds
    /\ documents = DocIds
    /\ annotations \in AnnotationLists
    /\ schedule \in Ledgers
    /\ result = NoResult
    /\ rng = 0
    /\ prev = NoPrev
    /\ pending = [a \in KnownIds |-> {}]
    /\ handed = [a \in KnownIds |-> {}]

Next ==
    \/ Scheduler_init /\ UNCHANGED histVars
    \/ \E a \in AnnotatorIds, n \in Sizes, s \in Seeds :
           random_assign(a, n, s) /\ UNCHANGED histVars
    \/ \E a \in AnnotatorIds, b \in AnnotatorIds, n \in Sizes \cup {Omitted}, s \in Seeds :
           random_review(a, b, n, s) /\ UNCHANGED histVars

Spec == Init /\ [][Next]_vars

\* Runs of one call over one snapshot: each run is a fresh scheduler over the
\* same task and ledger, its generator seeded by the caller (np.random.seed).
ExampleLedger ==
    Rows([k \in DOMAIN PairSeq |->
             IF PairSeq[k][1] = "A2" THEN COMPLETED
             ELSE IF PairSeq[k][2] = "D2" THEN ASSIGNED ELSE None], LABEL)

InitRuns ==
    /\ annotators = KnownIds
    /\ documents = DocIds
    /\ annotations = <<>>
    /\ schedule \in {<<>>, ExampleLedger}
    /\ result = NoResult
    /\ rng = 0
    /\ prev = NoPrev
    /\ pending = [a \in KnownIds |-> {}]
    /\ handed = [a \in KnownIds |-> {}]

NextRuns ==
    \/ /\ Scheduler_init
       /\ prev' = [res |-> result, seed |-> rng]
       /\ UNCHANGED <<rng, pending, handed>>
    \/ \E a \in AnnotatorIds, n \in Sizes, s \in Seeds :
           random_assign(a, n, s) /\ rng' = s /\ UNCHANGED <<prev, pending, handed>>
    \/ \E a \in AnnotatorIds, b \in AnnotatorIds, n \in Sizes \cup {Omitted}, s \in Seeds :
           random_review(a, b, n, s) /\ rng' = s /\ UNCHANGED <<prev, pending, handed>>

SpecRuns == InitRuns /\ [][NextRuns]_vars

\* The example of the specification beside the drawn snapshots: documents
\* D1..D5, D1 and D2 annotated, D3 ASSIGNED to A3, A3 an annotator of the task.
InitFive ==
    /\ annotators = AnnotatorIds
    /\ documents = DocIds \cup {"D4", "D5"}
    /\ annotations = <<[document |-> "D1", annotator |-> "A1"],
                       [document |-> "D2", annotator |-> "A2"]>>
    /\ schedule = <<[status |-> ASSIGNED, type |-> LABEL, document |-> "D3",
                     annotator |-> "A3", reviewee |-> None]>>
    /\ result = NoResult
    /\ rng = 0
    /\ prev = NoPrev
    /\ pending = [a \in KnownIds |-> {}]
    /\ handed = [a \in KnownIds |-> {}]

SpecSubsets == (Init \/ InitFive) /\ [][Next]_vars

\* ------------------------------------------------ Sequence2SequenceTransformer
\* A document's content is its sequence of characters; an annotation carries
\* body, entity name (None when it has no entity) and start/end offsets.
MaxOffset == 4
MaxAnns == 2

\* str.split(): the maximal runs of non-blank characters, in order, each with
\* the offset of its first character
RECURSIVE split_from(_, _, _, _)
split_from(s, i, cur, acc) ==
    LET closed == IF cur = <<>> THEN acc
                  ELSE Append(acc, [start |-> i - 1 - Len(cur), token |-> cur])
    IN  IF i > Len(s) THEN closed
        ELSE IF s[i] = " " THEN split_from(s, i + 1, <<>>, closed)
        ELSE split_from(s, i + 1, Append(cur, s[i]), acc)
Runs(s) == split_from(s, 1, <<>>, <<>>)
split(s) == [i \in DOMAIN Runs(s) |-> Runs(s)[i].token]

\* idx = 0; start, end = idx, idx + len(token): idx is never advanced
token_span(content, i) ==
    LET idx == 0
    IN  [start |-> idx, end |-> idx + Len(split(content)[i])]

contains(a, start, end) ==
    LET contains_start == a.start >= start /\ a.start <= end
        contains_end == a.end >= start /\ a.end <= end
    IN  contains_start \/ contains_end

\* the annotations of the document the token's span catches, in order
caught(doc, i) ==
    LET span == token_span(doc.content, i)
    IN  SelectSeq(doc.annotations, LAMBDA a : contains(a, span.start, span.end))

\* labels.append(a.body) / labels.append(a.entity.name)
token_labels(doc, i, keep) ==
    LET c == caught(doc, i)
    IN  IF keep = "body" THEN [k \in DOMAIN c |-> c[k].body]
        ELSE IF keep = "entity" THEN [k \in DOMAIN c |-> c[k].entity]
        ELSE <<>>

Count(items, x) == Cardinality({k \in DOMAIN items : items[k] = x})

\* Counter(items).most_common(1)[0][0]: the first item of the highest count
get_majority(items) ==
    items[CHOOSE k \in DOMAIN items :
        /\ \A j \in DOMAIN items : Count(items, items[j]) <= Count(items, items[k])
        /\ \A j \in 1 .. (k - 1) : Count(items, items[j]) < Count(items, items[k])]

\* tuple(set(labels)): the distinct labels in the order the set yields them
LabelSeq == <<"g", "u", "p", "x", "E">>
tuple_set(labels, seed) ==
    Shuffle(SelectSeq(LabelSeq, LAMBDA b : b \in Range(labels)), seed)

\* what stops the loop body at token i of doc, "none" when nothing does
token_error(doc, i, strategy, keep) ==
    IF keep = "entity" /\ \E k \in DOMAIN caught(doc, i) : caught(doc, i)[k].entity = None
    THEN "AttributeError"
    ELSE IF strategy = "majority" /\ token_labels(doc, i, keep) = <<>>
    THEN "IndexError"
    ELSE "none"

out_seq(doc, strategy, keep, seed) ==
    [i \in DOMAIN split(doc.content) |->
        IF token_error(doc, i, strategy, keep) # "none" THEN None
        ELSE IF strategy = "majority" THEN get_majority(token_labels(doc, i, keep))
        ELSE tuple_set(token_labels(doc, i, keep), seed)]

transform_errors(docs, strategy, keep) ==
    UNION {{<<d, i>> : i \in {j \in DOMAIN split(docs[d].content) :
                                  token_error(docs[d], j, strategy, keep) # "none"}} :
           d \in DOMAIN docs}

Transformed(strategy, keep, kind, ins, outs) ==
    [op |-> "transform", strategy |-> strategy, keep |-> keep, kind |-> kind,
     input_sequences |-> ins, output_sequences |-> outs]

\* Sequence2SequenceTransformer(str.split, strategy, keep).transform(task)
transform_result(docs, strategy, keep, seed) ==
    LET errs == transform_errors(docs, strategy, keep)
        first == CHOOSE e \in errs : \A f \in errs :
                     e[1] < f[1] \/ (e[1] = f[1] /\ e[2] <= f[2])
    IN  IF strategy \notin {"all", "majority"}
        THEN Transformed(strategy, keep, "NotImplementedError", <<>>, <<>>)
        ELSE IF errs # {}
        THEN Transformed(strategy, keep,
                         token_error(docs[first[1]], first[2], strategy, keep),
                         <<>>, <<>>)
        ELSE Transformed(strategy, keep, "returned",
                         [d \in DOMAIN docs |-> split(docs[d].content)],
                         [d \in DOMAIN docs |-> out_seq(docs[d], strategy, keep, seed)])

transform(strategy, keep, seed) ==
    /\ result.op = "none"
    /\ result' = transform_result(documents, strategy, keep, seed)
    /\ UNCHANGED <<inputVars, histVars>>

\* the document and the annotations of test_sequence_to_sequence
Ann(body, entity, start, end) ==
    [body |-> body, entity |-> entity, start |-> start, end |-> end]
TestContent ==
    <<"H", "e", "l", "l", "o", ",", " ", "h", "o", "w", " ",
      "a", "r", "e", " ", "y", "o", "u", "?">>
TestDoc ==
    [content |-> TestContent,
     annotations |->
        <<Ann("g", None, 0, 5), Ann("u", None, 7, 9),
          Ann("u", None, 11, 13), Ann("p", None, 15, 18),
          Ann("g", None, 0, 5), Ann("u", None, 7, 9),
          Ann("u", None, 11, 13), Ann("x", None, 15, 18),
          Ann("x", None, 0, 5), Ann("x", None, 7, 9),
          Ann("x", None, 11, 13), Ann("x", None, 15, 18)>>]

\* small documents: one or two tokens, up to MaxAnns annotations
Contents == {<<"a">>, <<"a", " ", "b">>, <<"a", "b", " ", "c">>}
Offsets == 0 .. MaxOffset
Anns == {Ann(b, "E", st, en) : b \in {"g", "u"},
                               st \in Offsets, en \in Offsets}
AnnLists == UNION {[1 .. k -> {a \in Anns : a.start <= a.end}] : k \in 0 .. MaxAnns}
SmallDocs == {[content |-> c, annotations |-> l] : c \in Contents, l \in AnnLists}
Tasks == {<<>>, <<TestDoc>>, <<TestDoc, TestDoc>>} \cup {<<d>> : d \in SmallDocs}
Strategies == {"majority", "all", "mean"}
Keeps == {"body", "entity", "id"}

InitTransform ==
    /\ annotators = {}
    /\ documents \in Tasks
    /\ annotations = <<>>
    /\ schedule = <<>>
    /\ result = NoResult
    /\ rng = 0
    /\ prev = NoPrev
    /\ pending = [a \in KnownIds |-> {}]
    /\ handed = [a \in KnownIds |-> {}]

NextTransform ==
    \E strategy \in Strategies, keep \in Keeps, s \in Seeds :
        transform(strategy, keep, s)

SpecTransform == InitTransform /\ [][NextTransform]_vars

\* ---------------------------------------------------------------- the caller
\* The caller of the scheduler: it asks for documents, then records each
\* document it was given with LinalgoClient.assign, while annotators submit.
\* pending[a] holds what a was given and is not yet in the ledger.
Outstanding(p) ==
    Len(schedule) + Cardinality(UNION {{<<a, x>> : x \in p[a]} : a \in KnownIds})

Given(docs, reviewee, assignment_type) ==
    {<<d, reviewee, assignment_type>> : d \in docs}

Receive(a, given) ==
    IF a \in KnownIds /\ given # {}
    THEN /\ pending' = [pending EXCEPT ![a] = @ \cup given]
         /\ handed' = [handed EXCEPT ![a] = @ \cup {<<x[1], x[3]>> : x \in given}]
         /\ Outstanding(pending') <= MaxFlow
    ELSE UNCHANGED <<pending, handed>>

AskLabeling(a, n, s) ==
    /\ random_assign(a, n, s)
    /\ Receive(a, Given(result'.set, None, LABEL))
    /\ UNCHANGED <<rng, prev>>

AskReview(a, b, n, s) ==
    /\ random_review(a, b, n, s)
    /\ Receive(a, Given(result'.set \cup Range(result'.list), b, REVIEW))
    /\ UNCHANGED <<rng, prev>>

Record(a) ==
    /\ result.op = "none"
    /\ \E x \in pending[a] :
           /\ assign(x[1], a, x[2], x[3])
           /\ pending' = [pending EXCEPT ![a] = @ \ {x}]
    /\ UNCHANGED <<rng, prev, handed>>

Submitted(i) == result.op = "none" /\ Submit(i) /\ UNCHANGED histVars

Returned == Scheduler_init /\ UNCHANGED histVars

InitFlow ==
    /\ annotators = KnownIds
    /\ documents = DocIds
    /\ annotations = <<>>
    /\ schedule = <<>>
    /\ result = NoResult
    /\ rng = 0
    /\ prev = NoPrev
    /\ pending = [a \in KnownIds |-> {}]
    /\ handed = [a \in KnownIds |-> {}]

\* the callers ask for at least one document, for the task's annotators
Asked == Sizes \ {0}

\* What an annotator was given is recorded before that annotator's next call.
Recorded(a) == pending[a] = {}

NextRecorded ==
    \/ Returned
    \/ \E a \in KnownIds, n \in Asked, s \in Seeds :
           Recorded(a) /\ AskLabeling(a, n, s)
    \/ \E a \in KnownIds, b \in KnownIds, n \in Asked \cup {Omitted}, s \in Seeds :
           Recorded(a) /\ AskReview(a, b, n, s)
    \/ \E a \in KnownIds : Record(a)
    \/ \E i \in 1 .. MaxFlow : Submitted(i)

SpecRecorded == InitFlow /\ [][NextRecorded]_vars

\* Every call and the recording of what it gave form one critical section:
\* no call starts while anything given is not yet in the ledger.
AllRecorded == \A a \in KnownIds : pending[a] = {}

NextSerial ==
    \/ Returned
    \/ \E a \in KnownIds, n \in Asked, s \in Seeds :
           AllRecorded /\ AskLabeling(a, n, s)
    \/ \E a \in KnownIds, b \in KnownIds, n \in Asked \cup {Omitted}, s \in Seeds :
           AllRecorded /\ AskReview(a, b, n, s)
    \/ \E a \in KnownIds : Record(a)
    \/ \E i \in 1 .. MaxFlow : Submitted(i)

SpecSerial == InitFlow /\ [][NextSerial]_vars

\* ---------------------------------------------------------------- claims
\* The sets of the specification, read off the ledger and the task.
Touched(a) ==
    {schedule[i].document :
        i \in {j \in DOMAIN schedule : /\ schedule[j].annotator = a
                                       /\ schedule[j].status \in {ASSIGNED, COMPLETED}}}
CompletedBy(a) ==
    {schedule[i].document :
        i \in {j \in DOMAIN schedule : /\ schedule[j].annotator = a
                                       /\ schedule[j].status = COMPLETED}}
Annotated == {annotations[i].document : i \in DOMAIN annotations}
LabelPool(a) == (documents \ Annotated) \ Touched(a)
ReviewPool(a, b) == CompletedBy(b) \ Touched(a)
IdsKnown ==
    /\ result.a \in annotators
    /\ result.op = "review" => result.b \in annotators
EligiblePool ==
    IF result.op = "assign" THEN LabelPool(result.a) ELSE ReviewPool(result.a, result.b)

\* C1: a set returned by random_assign(assignee, n) shares no document with the
\* assignee's ASSIGNED or COMPLETED records, nor with the annotated documents.
C1_LabelExclusive ==
    (result.op = "assign" /\ result.kind = "set") =>
        /\ result.set \cap Touched(result.a) = {}
        /\ result.set \cap Annotated = {}
        /\ result.set \subseteq documents
C1_Witness ==
    /\ result.op = "assign" /\ result.kind = "set" /\ result.set # {}
    /\ Touched(result.a) # {}
    /\ Annotated \ Touched(result.a) # {}

\* C2: a set returned by random_review(reviewer, reviewee, n) lies within the
\* reviewee's COMPLETED documents and shares none with the reviewer's ASSIGNED
\* or COMPLETED records, whatever their type.
C2_ReviewExclusive ==
    (result.op = "review" /\ result.kind = "set") =>
        /\ result.set \subseteq CompletedBy(result.b)
        /\ result.set \cap Touched(result.a) = {}
C2_Witness ==
    /\ result.op = "review" /\ result.kind = "set" /\ result.set # {}
    /\ \E i \in DOMAIN schedule :
           /\ schedule[i].annotator = result.a
           /\ schedule[i].status = ASSIGNED
           /\ schedule[i].document \in CompletedBy(result.b)

\* C3: with n given and known ids, a pool of at least n documents yields
\* exactly n distinct documents, and a smaller pool fails with
\* NotEnoughReviews and yields nothing.
C3_SizeContract ==
    (result.op # "none" /\ result.n # Omitted /\ IdsKnown) =>
        IF Cardinality(EligiblePool) >= result.n
        THEN result.kind = "set" /\ Cardinality(result.set) = result.n
        ELSE result.kind = "NotEnoughReviews" /\ result.set = {} /\ result.list = <<>>
C3_Witness ==
    /\ result.op = "assign" /\ result.kind = "set"
    /\ result.n = 2 /\ Cardinality(EligiblePool) = 3
C3_WitnessShort ==
    /\ result.op = "review" /\ result.kind = "NotEnoughReviews"
    /\ result.n = 2 /\ Cardinality(EligiblePool) = 1

\* C4: random_review without n returns the whole pool, each document once,
\* and does not fail with NotEnoughReviews.
C4_WholePool ==
    (result.op = "review" /\ result.n = Omitted /\ IdsKnown) =>
        /\ result.kind = "list"
        /\ Range(result.list) = ReviewPool(result.a, result.b)
        /\ Len(result.list) = Cardinality(ReviewPool(result.a, result.b))
C4_Witness ==
    /\ result.op = "review" /\ result.n = Omitted /\ result.kind = "list"
    /\ Len(result.list) = 1
    /\ Touched(result.a) # {}

\* C5: a call with an id outside the task's annotators fails with
\* AnnotatorNotFound, before the ledger is read and whatever n is, and yields
\* nothing.
C5_UnknownAnnotator ==
    (result.op # "none" /\ ~IdsKnown) =>
        /\ result.kind = "AnnotatorNotFound"
        /\ ~result.scanned
        /\ result.set = {} /\ result.list = <<>> /\ result.printed = <<>>
C5_Witness ==
    /\ result.op = "assign" /\ result.kind = "AnnotatorNotFound"
    /\ result.a \notin annotators
    /\ result.n > Cardinality(LabelPool(result.a))
    /\ schedule # <<>>

\* C7: a scheduler call, returning or failing, leaves the ledger (its records
\* and their order) and the task's annotators, documents and annotations as
\* they were.
C7_NoSideEffect ==
    [][(result.op = "none" /\ result'.op # "none") => UNCHANGED inputVars]_vars
C7_Witness ==
    /\ result.kind = "set" /\ result.set # {}
    /\ schedule # <<>> /\ annotations # <<>>

\* The example of the specification: the reviewee A2 has COMPLETED D1, D2 and
\* D3, the reviewer A1 has touched D2, and A1 asks for 3 reviews of A2.
C6_Example ==
    /\ CompletedBy("A2") = {"D1", "D2", "D3"}
    /\ Touched("A1") = {"D2"}
    /\ result.op = "review" /\ result.a = "A1" /\ result.b = "A2" /\ result.n = 3

\* C6 (as claimed): a NotEnoughReviews failure carries the requested and the
\* available count; in the example it is InsufficientPool(3, 2).
C6_CarriesCounts ==
    C6_Example => (result.kind = "NotEnoughReviews" /\ result.exc = <<3, 2>>)

\* C6 (amended): the two failures are told apart by their kind alone, an
\* unknown id giving AnnotatorNotFound and a shortage NotEnoughReviews; the
\* NotEnoughReviews exception carries nothing, the pool being only printed.
C6_BareFailures ==
    (result.kind \in {"AnnotatorNotFound", "NotEnoughReviews"}) =>
        /\ result.kind = "AnnotatorNotFound" <=> ~IdsKnown
        /\ result.kind = "NotEnoughReviews" =>
               /\ result.exc = <<>>
               /\ Range(result.printed) = EligiblePool
               /\ result.n > Len(result.printed)
C6_Witness ==
    C6_Example /\ result.kind = "NotEnoughReviews" /\ Len(result.printed) = 2

\* C10: two runs of the same call on the same task and ledger, with the same
\* seed, return the same set.
C10_SameSeedSameSet ==
    ( /\ result.kind = "set" /\ prev.res.kind = "set"
      /\ result.op = prev.res.op /\ result.a = prev.res.a
      /\ result.b = prev.res.b /\ result.n = prev.res.n
      /\ rng = prev.seed ) => result.set = prev.res.set

HandedDocs(a) == {h[1] : h \in handed[a]}
Labelled(a) == {h[1] : h \in {x \in handed[a] : x[2] = LABEL}}

\* C8: with every labeling call and the recording of its result in one
\* critical section, no document is handed out for labeling to two annotators.
C8_NoDuplicateAssignment ==
    \A a \in KnownIds, b \in KnownIds : a # b => Labelled(a) \cap Labelled(b) = {}

\* C9: when what an annotator is given is recorded before that annotator's
\* next call, no call gives an annotator a document given to them before.
C9_NoRepeat ==
    [][\A a \in KnownIds :
          (pending[a] = {} /\ pending'[a] # {}) =>
              {x[1] : x \in pending'[a]} \cap HandedDocs(a) = {}]_vars
C9_Witness ==
    \E a \in KnownIds :
        /\ pending[a] # {}
        /\ Touched(a) # {}
        /\ \E h \in handed[a] : h[2] = REVIEW
        /\ \E h \in handed[a] : h[2] = LABEL

\* C13: a review of one's own work has an empty pool: random_review(a, a)
\* without n returns nothing, and with n >= 1 fails with NotEnoughReviews.
C13_NoSelfReview ==
    (result.op = "review" /\ result.a = result.b /\ result.a \in annotators) =>
        /\ result.kind # "AnnotatorNotFound"
        /\ result.set = {} /\ result.list = <<>> /\ result.printed = <<>>
        /\ result.n = Omitted => result.kind = "list"
        /\ result.n >= 1 => result.kind = "NotEnoughReviews"
C13_Witness ==
    /\ result.op = "review" /\ result.a = result.b
    /\ result.kind = "NotEnoughReviews" /\ result.n = 1
    /\ Cardinality(CompletedBy(result.a)) >= 2

\* The generator states that give every permutation of a list of k elements.
RECURSIVE Factorial(_)
Factorial(k) == IF k <= 1 THEN 1 ELSE k * Factorial(k - 1)
Draws(k) == 0 .. (Factorial(k) - 1)
NSubsets(S, n) == {T \in SUBSET S : Cardinality(T) = n}

\* the sets random_assign(a, n) returns from the pool listed as pool
AssignResults(a, n, pool) ==
    {random_assign_result(annotators, schedule, a, n, pool, s).set :
        s \in Draws(Len(pool))}
\* the sets random_review(a, b, n) returns from the pool listed as pool
ReviewResults(a, b, n, pool) ==
    {random_review_result(annotators, schedule, a, b, n, pool, s).set :
        s \in Draws(Len(pool))}

\* C11: for 0 <= n <= |pool| the sets a call can return are exactly the
\* n-element subsets of its pool, (documents - annotated - assignee's touched)
\* for random_assign and (reviewee's completed - reviewer's touched) for
\* random_review, in whatever order the pool is listed; a returned set is
\* one of them. In the example random_assign(A3, 2) returns {D4, D5}.
C11_AllSubsets ==
    /\ result.op = "none" =>
           /\ \A a \in annotators :
                  \A pool \in ListsOf(assign_pool(documents, annotations, schedule, a)) :
                      \A n \in 0 .. Len(pool) :
                          AssignResults(a, n, pool) = NSubsets(LabelPool(a), n)
           /\ \A a \in annotators, b \in annotators :
                  \A pool \in ListsOf(review_pool(schedule, a, b)) :
                      \A n \in 0 .. Len(pool) :
                          ReviewResults(a, b, n, pool) = NSubsets(ReviewPool(a, b), n)
    /\ result.kind = "set" => result.set \in NSubsets(EligiblePool, result.n)
    /\ ( /\ documents = {"D1", "D2", "D3", "D4", "D5"}
         /\ Annotated = {"D1", "D2"} /\ Touched("A3") = {"D3"}
         /\ result.op = "assign" /\ result.a = "A3" /\ result.n = 2 )
           => (result.kind = "set" /\ result.set = {"D4", "D5"})
C11_Witness ==
    /\ documents = {"D1", "D2", "D3", "D4", "D5"}
    /\ Annotated = {"D1", "D2"} /\ Touched("A3") = {"D3"}
    /\ result.op = "assign" /\ result.a = "A3" /\ result.n = 2
    /\ result.set = {"D4", "D5"}

\* The span the i-th token occupies in the content, both ends counted as
\* transform counts them.
TokenSpan(content, i) ==
    [start |-> Runs(content)[i].start,
     end |-> Runs(content)[i].start + Len(split(content)[i])]
\* The bodies of the document's annotations whose start or end offset lies
\* in the span the i-th token occupies in the content.
BodiesAt(doc, i) ==
    LET span == TokenSpan(doc.content, i)
        c == SelectSeq(doc.annotations, LAMBDA a : contains(a, span.start, span.end))
    IN  [k \in DOMAIN c |-> c[k].body]
MostCommon(items) ==
    {x \in Range(items) : \A y \in Range(items) : Count(items, y) <= Count(items, x)}

\* C12 (rule): with strategy 'majority' and keep 'body', transform returns per
\* document its tokens in order and as many labels, the i-th label a most
\* common body among the annotations that start or end inside the i-th
\* token's span in the content.
C12_Rule ==
    (result.op = "transform" /\ result.strategy = "majority"
        /\ result.keep = "body" /\ result.kind = "returned") =>
        /\ DOMAIN result.input_sequences = DOMAIN documents
        /\ DOMAIN result.output_sequences = DOMAIN documents
        /\ \A d \in DOMAIN documents :
               /\ result.input_sequences[d] = split(documents[d].content)
               /\ Len(result.output_sequences[d]) = Len(result.input_sequences[d])
               /\ \A i \in DOMAIN result.output_sequences[d] :
                      BodiesAt(documents[d], i) # <<>> =>
                          result.output_sequences[d][i] \in MostCommon(BodiesAt(documents[d], i))
\* C12 (example): for 'Hello, how are you?' with the test's annotations the
\* labels are g, u, u, p.
C12_Example ==
    (result.op = "transform" /\ result.strategy = "majority"
        /\ result.keep = "body" /\ documents = <<TestDoc>>) =>
        /\ result.kind = "returned"
        /\ result.input_sequences =
               <<<<<<"H", "e", "l", "l", "o", ",">>, <<"h", "o", "w">>,
                   <<"a", "r", "e">>, <<"y", "o", "u", "?">>>>>>
        /\ result.output_sequences = <<<<"g", "u", "u", "p">>>>
\* C12: transform labels every token with the most common body of the
\* annotations inside that token's span, and the test's document with
\* g, u, u, p.
C12_TokenLabels == C12_Rule /\ C12_Example
====
